---- MODULE Spec2Model ----
(***************************************************************************)
(* Model of local_inference_pool: ServerPool (pool.py), ServerConfig       *)
(* (config.py) and ConcurrentDispatcher (dispatcher.py).                   *)
(*                                                                         *)
(* The program runs on one asyncio event loop: a coroutine runs without    *)
(* interruption between two suspension points (await).  ServerPool's       *)
(* find_and_acquire, release_server and set_max_concurrent are synchronous *)
(* and therefore atomic.  The dispatcher's matching loop suspends only in  *)
(* _state_changed.wait() (empty queue) and in asyncio.wait() (after a      *)
(* pass); one pass is shown here entry by entry, and no other coroutine    *)
(* runs while dispatcher_task = "pass".                                    *)
(***************************************************************************)
EXTENDS Integers, Sequences, FiniteSets, TLC

\* ------------------------------------------------------------------ bounds
NumServers == 2
NumCallers == 2
MaxCap == 2

Servers == 1..NumServers          \* configuration order = dict insertion order
Callers == 1..NumCallers          \* one submit() call each
Models == {"A", "B"}
None == "none"                    \* Python None for a model
NoUrl == 0                        \* Python None for a URL
UnknownUrl == NumServers + 1      \* a URL that is not a key of pool.servers

\* what GET {url}/v1/models of each server answers when it answers: the
\* first server serves both models, the others only "B"
Manifest(s) == IF s = 1 THEN {"A", "B"} ELSE {"B"}

VARIABLES
    available_models,   \* ServerConfig.available_models, per server
    active_requests,    \* ServerConfig.active_requests
    max_concurrent,     \* ServerConfig.max_concurrent
    current_model,      \* ServerConfig.current_model
    resource_available, \* ServerPool.resource_available (asyncio.Event flag)
    queue,              \* ConcurrentDispatcher._queue (deque of InferenceTask)
    state_changed,      \* ConcurrentDispatcher._state_changed (Event flag)
    dispatcher_task,    \* _dispatcher_task and the position of the loop in it
    pass_remaining,     \* iterations left of `for _ in range(queue_len)`
    pc,                 \* position of each submit() call
    model_id,           \* InferenceTask.model_id of each call
    future,             \* InferenceTask.future of each call
    must_cancel,        \* Task._must_cancel of the task that runs submit()
    returned,           \* the value submit() returned
    passLog,            \* history: what the current pass did, entry by entry
    snap,               \* history: the servers just before the last admission
    attempted,          \* history: queued requests that an earlier pass rotated
    loops,              \* history: matching-loop tasks started and ended
    last_call           \* history: the last recorded call on the pool

poolVars == <<available_models, active_requests, max_concurrent,
              current_model, resource_available>>
taskVars == <<queue, state_changed, dispatcher_task, pass_remaining,
              pc, model_id, future, must_cancel, returned, passLog, snap,
              attempted, loops>>
dispVars == <<taskVars, last_call>>
histVars == <<attempted, loops, last_call>>
vars == <<available_models, active_requests, max_concurrent, current_model,
          resource_available, queue, state_changed, dispatcher_task,
          pass_remaining, pc, model_id, future, must_cancel, returned,
          passLog, snap, attempted, loops, last_call>>

NoFuture == [state |-> "none", result |-> NoUrl]
PendingFuture == [state |-> "pending", result |-> NoUrl]
CancelledFuture == [state |-> "cancelled", result |-> NoUrl]
ResolvedFuture(url) == [state |-> "result", result |-> url]
NoSnap == [who |-> 0, active |-> <<>>, current |-> <<>>]
NoCall == [op |-> "none", arg |-> 0]
NoLoops == [started |-> 0, ended |-> 0]

\* ------------------------------------------------------------- ServerPool

\* mutant of is_busy: a server never counts as busy
is_busy_NeverBusy(s) == FALSE

\* mutant of is_busy: `>` for `>=`
is_busy_OffByOne(s) == active_requests[s] > max_concurrent[s]

\* ServerConfig.is_busy
is_busy(s) == active_requests[s] >= max_concurrent[s]

\* mutant of JitSwapBlocked: the JIT-swap test is left out
JitSwapBlocked_Off(s, m) == FALSE

\* the JIT-swap test of find_and_acquire: the server is skipped
JitSwapBlocked(s, m) ==
    /\ current_model[s] # None
    /\ current_model[s] # m
    /\ active_requests[s] > 0

\* mutant of ScanStep: `<=` for `<`, the last of several least-loaded wins
ScanStep_LastOfTies(s, m, best) ==
    IF m \notin available_models[s] THEN best
    ELSE IF JitSwapBlocked(s, m) THEN best
    ELSE IF /\ ~is_busy(s)
            /\ (best = NoUrl \/ active_requests[s] <= active_requests[best])
         THEN s
         ELSE best

\* the body of the for loop of find_and_acquire for one server:
\* best is the best_url so far (best_load is its active_requests,
\* float("inf") while best_url is None)
ScanStep(s, m, best) ==
    IF m \notin available_models[s] THEN best
    ELSE IF JitSwapBlocked(s, m) THEN best
    ELSE IF /\ ~is_busy(s)
            /\ (best = NoUrl \/ active_requests[s] < active_requests[best])
         THEN s
         ELSE best

\* the for loop of find_and_acquire over self.servers.items(), from server s
RECURSIVE Scan(_, _, _)
Scan(s, m, best) ==
    IF s > NumServers THEN best
    ELSE Scan(s + 1, m, ScanStep(s, m, best))

\* the URL find_and_acquire(m) returns in the current state (NoUrl for None)
BestUrl(m) == Scan(1, m, NoUrl)

\* mutant of Acquire: the server is pinned but the slot is not counted
Acquire_NoCount(url, m) ==
    /\ UNCHANGED active_requests
    /\ current_model' = [current_model EXCEPT ![url] = m]

\* the mutation of find_and_acquire on the chosen server
Acquire(url, m) ==
    /\ active_requests' = [active_requests EXCEPT ![url] = @ + 1]
    /\ current_model' = [current_model EXCEPT ![url] = m]

\* mutant of release_server: the event is set but the slot is not freed
release_server_KeepsSlot(url) ==
    IF url \in Servers
    THEN /\ UNCHANGED <<active_requests, current_model>>
         /\ resource_available' = TRUE
    ELSE UNCHANGED <<active_requests, current_model, resource_available>>

\* mutant of release_server: the counter is decremented without a floor
release_server_NoFloor(url) ==
    IF url \in Servers
    THEN LET n == active_requests[url] - 1
         IN /\ active_requests' = [active_requests EXCEPT ![url] = n]
            /\ current_model' = [current_model EXCEPT
                                   ![url] = IF n = 0 THEN None ELSE @]
            /\ resource_available' = TRUE
    ELSE UNCHANGED <<active_requests, current_model, resource_available>>

\* mutant of release_server: the event is set only when a slot was freed
release_server_SignalOnFree(url) ==
    IF url \in Servers
    THEN LET n == IF active_requests[url] - 1 > 0
                  THEN active_requests[url] - 1 ELSE 0
         IN /\ active_requests' = [active_requests EXCEPT ![url] = n]
            /\ current_model' = [current_model EXCEPT
                                   ![url] = IF n = 0 THEN None ELSE @]
            /\ resource_available' = (resource_available
                                        \/ active_requests[url] > 0)
    ELSE UNCHANGED <<active_requests, current_model, resource_available>>

\* mutant of release_server: current_model is not cleared on drain
release_server_KeepsModel(url) ==
    IF url \in Servers
    THEN LET n == IF active_requests[url] - 1 > 0
                  THEN active_requests[url] - 1 ELSE 0
         IN /\ active_requests' = [active_requests EXCEPT ![url] = n]
            /\ UNCHANGED current_model
            /\ resource_available' = TRUE
    ELSE UNCHANGED <<active_requests, current_model, resource_available>>

\* mutant of release_server: the capacity-available event is not set
release_server_NoSignal(url) ==
    IF url \in Servers
    THEN LET n == IF active_requests[url] - 1 > 0
                  THEN active_requests[url] - 1 ELSE 0
         IN /\ active_requests' = [active_requests EXCEPT ![url] = n]
            /\ current_model' = [current_model EXCEPT
                                   ![url] = IF n = 0 THEN None ELSE @]
            /\ UNCHANGED resource_available
    ELSE UNCHANGED <<active_requests, current_model, resource_available>>

\* release_server(server_url)
release_server(url) ==
    IF url \in Servers
    THEN LET n == IF active_requests[url] - 1 > 0
                  THEN active_requests[url] - 1 ELSE 0
         IN /\ active_requests' = [active_requests EXCEPT ![url] = n]
            /\ current_model' = [current_model EXCEPT
                                   ![url] = IF n = 0 THEN None ELSE @]
            /\ resource_available' = TRUE
    ELSE UNCHANGED <<active_requests, current_model, resource_available>>

\* the event loop is between two callbacks: the matching loop is suspended
Yielded == dispatcher_task # "pass"

\* find_and_acquire(model_id): acquire on the best server, if there is one
find_and_acquire(m) ==
    LET url == BestUrl(m)
    IN IF url # NoUrl
       THEN Acquire(url, m)
       ELSE UNCHANGED <<active_requests, current_model>>

\* mutant of set_max_concurrent: the value is stored without max(1, .)
set_max_concurrent_NoClamp(n) ==
    max_concurrent' = [s \in Servers |-> n]

\* set_max_concurrent(max_concurrent)
set_max_concurrent(n) ==
    max_concurrent' = [s \in Servers |-> IF n > 1 THEN n ELSE 1]

\* mutant of refresh_manifest: a failed fetch keeps the previous catalog
refresh_manifest_KeepsOnFailure(s, ok, reported) ==
    available_models' = [available_models EXCEPT
                           ![s] = IF ok THEN reported ELSE @]

\* _refresh_manifest(server_url): the try branch stores the reported
\* set, the except branch stores set()
refresh_manifest(s, ok, reported) ==
    available_models' = [available_models EXCEPT
                           ![s] = IF ok THEN reported ELSE {}]

\* ServerPool.find_and_acquire called directly on the pool
PoolAcquire(m) ==
    /\ Yielded
    /\ find_and_acquire(m)
    /\ UNCHANGED <<available_models, max_concurrent, resource_available>>
    /\ UNCHANGED dispVars

\* ServerPool.release_server called directly on the pool with any URL
PoolRelease(url) ==
    /\ Yielded
    /\ release_server(url)
    /\ UNCHANGED <<available_models, max_concurrent>>
    /\ UNCHANGED dispVars

\* ServerPool.set_max_concurrent(n)
SetMaxConcurrent(n) ==
    /\ Yielded
    /\ set_max_concurrent(n)
    /\ UNCHANGED <<available_models, active_requests, current_model,
                   resource_available>>
    /\ UNCHANGED dispVars

\* ServerPool._refresh_manifest(server_url): the fetch succeeds and reports
\* a list of models, or fails
RefreshManifest(s, ok, reported) ==
    /\ Yielded
    /\ refresh_manifest(s, ok, reported)
    /\ UNCHANGED <<active_requests, max_concurrent, current_model,
                   resource_available>>
    /\ UNCHANGED dispVars

\* ServerPool.__init__ and ConcurrentDispatcher.__init__
Init ==
    /\ available_models = [s \in Servers |-> {}]
    /\ active_requests = [s \in Servers |-> 0]
    /\ max_concurrent = [s \in Servers |-> 1]
    /\ current_model = [s \in Servers |-> None]
    /\ resource_available = FALSE
    /\ queue = <<>>
    /\ state_changed = FALSE
    /\ dispatcher_task = "none"
    /\ pass_remaining = 0
    /\ pc = [c \in Callers |-> "new"]
    /\ model_id = [c \in Callers |-> None]
    /\ future = [c \in Callers |-> NoFuture]
    /\ must_cancel = [c \in Callers |-> FALSE]
    /\ returned = [c \in Callers |-> NoUrl]
    /\ passLog = <<>>
    /\ snap = NoSnap
    /\ attempted = {}
    /\ loops = NoLoops
    /\ last_call = NoCall

\* the pool used on its own, by any sequence of its mutating operations
NextPool ==
    \/ \E m \in Models : PoolAcquire(m)
    \/ \E url \in Servers \cup {UnknownUrl} : PoolRelease(url)
    \/ \E n \in 0..MaxCap : SetMaxConcurrent(n)
    \/ \E s \in Servers, ok \in BOOLEAN, reported \in SUBSET Models :
          RefreshManifest(s, ok, reported)

SpecPool == Init /\ [][NextPool]_vars

\* a caller of the pool calls find_and_acquire(m); the call is recorded
CallAcquire(m) ==
    /\ find_and_acquire(m)
    /\ last_call' = [op |-> "find_and_acquire", arg |-> m]
    /\ UNCHANGED <<available_models, max_concurrent, resource_available>>
    /\ UNCHANGED taskVars

\* a caller of the pool calls release_server(url); the call is recorded
CallRelease(url) ==
    /\ release_server(url)
    /\ last_call' = [op |-> "release_server", arg |-> url]
    /\ UNCHANGED <<available_models, max_concurrent>>
    /\ UNCHANGED taskVars

\* a caller of the pool calls set_max_concurrent(n); the call is recorded
CallSetMaxConcurrent(n) ==
    /\ set_max_concurrent(n)
    /\ last_call' = [op |-> "set_max_concurrent", arg |-> n]
    /\ UNCHANGED <<available_models, active_requests, current_model,
                   resource_available>>
    /\ UNCHANGED taskVars

\* one _refresh_manifest of a refresh_all_manifests call completes for
\* server s; the completion is recorded
CallRefreshManifest(s, ok, reported) ==
    /\ refresh_manifest(s, ok, reported)
    /\ last_call' = [op |-> "refresh_manifest", arg |-> <<s, ok, reported>>]
    /\ UNCHANGED <<active_requests, max_concurrent, current_model,
                   resource_available>>
    /\ UNCHANGED taskVars

\* the dispatcher's loop consumes the capacity-available event
\* (`self._pool.resource_available.clear()`) while no request is queued
CallClearEvent ==
    /\ resource_available
    /\ resource_available' = FALSE
    /\ last_call' = [op |-> "clear", arg |-> 0]
    /\ UNCHANGED <<available_models, active_requests, max_concurrent,
                   current_model>>
    /\ UNCHANGED taskVars

\* the model lists a fetch from server s can report: none, or its manifest
Reports(s) == {{}, Manifest(s)}

\* the pool's public operations, each recorded in last_call
NextCalls ==
    \/ \E m \in Models : CallAcquire(m)
    \/ \E url \in Servers \cup {UnknownUrl} : CallRelease(url)
    \/ \E n \in 0..MaxCap : CallSetMaxConcurrent(n)
    \/ \E s \in Servers, ok \in BOOLEAN :
          \E reported \in Reports(s) : CallRefreshManifest(s, ok, reported)
    \/ CallClearEvent

SpecCalls == Init /\ [][NextCalls]_vars

\* ---------------------------------------------------- ConcurrentDispatcher

\* mutant of NoLoopRunning: a loop task that has ended is not replaced
NoLoopRunning_NeverStarted == dispatcher_task = "none"

\* mutant of NoLoopRunning: submit starts a loop task at every call
NoLoopRunning_Always == TRUE

\* submit(): `self._dispatcher_task is None or self._dispatcher_task.done()`
NoLoopRunning == dispatcher_task \in {"none", "done"}

\* mutant of Enqueue: appendleft, a new request goes to the head
Enqueue_AtHead(c) == <<c>> \o queue

\* submit(): `self._queue.append(task)`
Enqueue(c) == Append(queue, c)

\* submit(model_id), from its first line to `await future`; nothing
\* suspends between the test of _dispatcher_task and create_task
Submit(c, m) ==
    /\ Yielded
    /\ pc[c] = "new"
    /\ \A d \in Callers : d < c => pc[d] # "new"
    /\ IF NoLoopRunning
       THEN /\ dispatcher_task' = "start"
            /\ loops' = [loops EXCEPT !.started = @ + 1]
       ELSE UNCHANGED <<dispatcher_task, loops>>
    /\ future' = [future EXCEPT ![c] = PendingFuture]
    /\ model_id' = [model_id EXCEPT ![c] = m]
    /\ queue' = Enqueue(c)
    /\ state_changed' = TRUE
    /\ pc' = [pc EXCEPT ![c] = "awaiting"]
    /\ UNCHANGED <<pass_remaining, must_cancel, returned, passLog, snap,
                   attempted, last_call>>
    /\ UNCHANGED poolVars

\* Task.cancel() on the task suspended in `await future`: a pending future
\* is cancelled at once, a future that is already done leaves the
\* cancellation for the task's next step
Cancel(c) ==
    /\ Yielded
    /\ pc[c] = "awaiting"
    /\ ~must_cancel[c]
    /\ future[c].state # "cancelled"
    /\ IF future[c].state = "pending"
       THEN /\ future' = [future EXCEPT ![c] = CancelledFuture]
            /\ UNCHANGED must_cancel
       ELSE /\ must_cancel' = [must_cancel EXCEPT ![c] = TRUE]
            /\ UNCHANGED future
    /\ UNCHANGED <<queue, state_changed, dispatcher_task, pass_remaining, pc,
                   model_id, returned, passLog, snap>>
    /\ UNCHANGED histVars
    /\ UNCHANGED poolVars

\* mutant of SubmitReturn: a cancellation that arrived after the future was
\* resolved is swallowed and the URL is returned
SubmitReturn_SwallowsCancel(c) ==
    /\ Yielded
    /\ pc[c] = "awaiting"
    /\ future[c].state = "result"
    /\ returned' = [returned EXCEPT ![c] = future[c].result]
    /\ pc' = [pc EXCEPT ![c] = "holding"]
    /\ UNCHANGED <<queue, state_changed, dispatcher_task, pass_remaining,
                   model_id, future, must_cancel, passLog, snap>>
    /\ UNCHANGED histVars
    /\ UNCHANGED poolVars

\* submit(): `return await future`, the task resumes with the result
SubmitReturn(c) ==
    /\ Yielded
    /\ pc[c] = "awaiting"
    /\ future[c].state = "result"
    /\ ~must_cancel[c]
    /\ returned' = [returned EXCEPT ![c] = future[c].result]
    /\ pc' = [pc EXCEPT ![c] = "holding"]
    /\ UNCHANGED <<queue, state_changed, dispatcher_task, pass_remaining,
                   model_id, future, must_cancel, passLog, snap>>
    /\ UNCHANGED histVars
    /\ UNCHANGED poolVars

\* mutant of CancelHandler: a URL that was already granted is not released
CancelHandler_NoRelease(c) ==
    /\ UNCHANGED <<active_requests, current_model, resource_available>>
    /\ future' = [future EXCEPT ![c] = IF @.state = "pending"
                                       THEN CancelledFuture ELSE @]

\* submit(): the body of `except asyncio.CancelledError`, before `raise`
CancelHandler(c) ==
    /\ IF future[c].state = "result"
       THEN release_server(future[c].result)
       ELSE UNCHANGED <<active_requests, current_model, resource_available>>
    /\ future' = [future EXCEPT ![c] = IF @.state = "pending"
                                       THEN CancelledFuture ELSE @]

\* submit(): the task resumes with CancelledError, runs the handler and
\* re-raises
SubmitCancelled(c) ==
    /\ Yielded
    /\ pc[c] = "awaiting"
    /\ must_cancel[c] \/ future[c].state = "cancelled"
    /\ CancelHandler(c)
    /\ pc' = [pc EXCEPT ![c] = "cancelled"]
    /\ must_cancel' = [must_cancel EXCEPT ![c] = FALSE]
    /\ snap' = NoSnap
    /\ UNCHANGED <<queue, state_changed, dispatcher_task, pass_remaining,
                   model_id, returned, passLog>>
    /\ UNCHANGED histVars
    /\ UNCHANGED <<available_models, max_concurrent>>

\* the caller collaborator returns the slot it was granted, once
CallerRelease(c) ==
    /\ Yielded
    /\ pc[c] = "holding"
    /\ release_server(returned[c])
    /\ pc' = [pc EXCEPT ![c] = "released"]
    /\ snap' = NoSnap
    /\ UNCHANGED <<queue, state_changed, dispatcher_task, pass_remaining,
                   model_id, future, must_cancel, returned, passLog>>
    /\ UNCHANGED histVars
    /\ UNCHANGED <<available_models, max_concurrent>>

\* mutant of Woken: the loop waits for the queue-changed event only
Woken_BySubmitOnly == state_changed

\* asyncio.wait([resource_available.wait(), _state_changed.wait()],
\* return_when=FIRST_COMPLETED) returns: one of the two events is set
Woken == resource_available \/ state_changed

\* _process_queue_loop: the top of `while True`, reached when the task first
\* runs and when asyncio.wait() returns; both events are cleared, then the
\* loop suspends on an empty queue or takes the length snapshot
LoopTop ==
    /\ \/ dispatcher_task = "start"
       \/ /\ dispatcher_task = "waiting"
          /\ Woken
    /\ state_changed' = FALSE
    /\ resource_available' = FALSE
    /\ IF queue = <<>>
       THEN /\ dispatcher_task' = "idle"
            /\ pass_remaining' = 0
       ELSE /\ dispatcher_task' = "pass"
            /\ pass_remaining' = Len(queue)
    /\ passLog' = <<>>
    /\ UNCHANGED <<queue, pc, model_id, future, must_cancel, returned, snap>>
    /\ UNCHANGED histVars
    /\ UNCHANGED <<available_models, active_requests, max_concurrent,
                   current_model>>

\* _process_queue_loop: `await self._state_changed.wait()` returns
LoopWakeIdle ==
    /\ dispatcher_task = "idle"
    /\ state_changed
    /\ dispatcher_task' = "pass"
    /\ pass_remaining' = Len(queue)
    /\ passLog' = <<>>
    /\ UNCHANGED <<queue, state_changed, pc, model_id, future, must_cancel,
                   returned, snap>>
    /\ UNCHANGED histVars
    /\ UNCHANGED poolVars

\* mutant of VisitOutcome: the `if task.future.done()` cleanup is left out
VisitOutcome_NoDoneCheck(c) ==
    IF BestUrl(model_id[c]) # NoUrl THEN "grant" ELSE "rotate"

\* what one iteration of the for loop does with the task at the head:
\* "gc" (future done), "grant" (find_and_acquire gave a URL) or "rotate"
VisitOutcome(c) ==
    IF future[c].state # "pending" THEN "gc"
    ELSE IF BestUrl(model_id[c]) # NoUrl THEN "grant"
    ELSE "rotate"

\* mutant of RemainingAfter: the pass stops at the first request that
\* cannot be admitted (retry in place, no rotation past it)
RemainingAfter_StopOnMiss(op) == IF op = "rotate" THEN 0 ELSE pass_remaining - 1

\* mutant of RemainingAfter: a rotation does not use up an iteration, as if
\* the pass ran until the queue held no unvisited-looking entry
RemainingAfter_RotateFree(op) ==
    IF op = "rotate" THEN pass_remaining ELSE pass_remaining - 1

\* `for _ in range(queue_len)`: the iterations left after one iteration,
\* whatever it did
RemainingAfter(op) == pass_remaining - 1

\* _process_queue_loop: one iteration of `for _ in range(queue_len)`.
\* set_result cannot raise InvalidStateError here: nothing runs between
\* the done() test and set_result
LoopStep ==
    /\ dispatcher_task = "pass"
    /\ pass_remaining > 0
    /\ queue # <<>>
    /\ LET c == Head(queue)
           op == VisitOutcome(c)
           url == BestUrl(model_id[c])
       IN /\ passLog' = Append(passLog, <<c, op>>)
          /\ IF op = "gc"
             THEN /\ queue' = Tail(queue)
                  /\ UNCHANGED <<future, snap, active_requests,
                                 current_model>>
             ELSE IF op = "grant"
             THEN /\ Acquire(url, model_id[c])
                  /\ queue' = Tail(queue)
                  /\ future' = [future EXCEPT ![c] = ResolvedFuture(url)]
                  /\ snap' = [who |-> c, active |-> active_requests,
                              current |-> current_model]
             ELSE /\ queue' = Append(Tail(queue), c)
                  /\ UNCHANGED <<future, snap, active_requests,
                                 current_model>>
          /\ pass_remaining' = RemainingAfter(op)
    /\ UNCHANGED histVars
    /\ UNCHANGED <<state_changed, dispatcher_task, pc, model_id, must_cancel,
                   returned>>
    /\ UNCHANGED <<available_models, max_concurrent, resource_available>>

\* _process_queue_loop: the for loop is over (range exhausted or break on an
\* empty queue).  A non-empty queue suspends the loop in asyncio.wait(); an
\* empty one takes it back to the top, where it clears both events and
\* suspends in _state_changed.wait()
LoopPassEnd ==
    /\ dispatcher_task = "pass"
    /\ pass_remaining = 0 \/ queue = <<>>
    /\ IF queue # <<>>
       THEN /\ dispatcher_task' = "waiting"
            /\ UNCHANGED <<state_changed, resource_available>>
       ELSE /\ dispatcher_task' = "idle"
            /\ state_changed' = FALSE
            /\ resource_available' = FALSE
    /\ pass_remaining' = 0
    /\ passLog' = <<>>
    /\ attempted' = {passLog[i][1] : i \in {k \in 1..Len(passLog) :
                                              passLog[k][2] = "rotate"}}
    /\ UNCHANGED <<queue, pc, model_id, future, must_cancel, returned, snap,
                   loops, last_call>>
    /\ UNCHANGED <<available_models, active_requests, max_concurrent,
                   current_model>>

LoopNext == LoopTop \/ LoopWakeIdle \/ LoopStep \/ LoopPassEnd

\* set_max_concurrent(n) by an operator who does not lower the capacity of
\* a server that has granted slots
RaiseMaxConcurrent(n) ==
    /\ \A s \in Servers :
          active_requests[s] > 0 => (IF n > 1 THEN n ELSE 1) >= max_concurrent[s]
    /\ SetMaxConcurrent(n)

\* the dispatcher with its callers, each of which releases the URL it was
\* granted exactly once, next to manifest refreshes and capacity changes
Next ==
    \/ \E c \in Callers, m \in Models : Submit(c, m)
    \/ \E c \in Callers : Cancel(c)
    \/ \E c \in Callers : SubmitReturn(c)
    \/ \E c \in Callers : SubmitCancelled(c)
    \/ \E c \in Callers : CallerRelease(c)
    \/ LoopTop
    \/ LoopWakeIdle
    \/ LoopStep
    \/ LoopPassEnd
    \/ \E n \in {0, MaxCap} : RaiseMaxConcurrent(n)
    \/ \E s \in Servers, ok \in BOOLEAN : RefreshManifest(s, ok, Manifest(s))

Spec == Init /\ [][Next]_vars

\* _process_queue_loop ends while it is suspended: an exception raised into
\* one of its awaits is logged by `except Exception` and the coroutine
\* returns, or the task is cancelled; either way the task is done() and
\* nothing else is touched
LoopFault ==
    /\ dispatcher_task \in {"start", "idle", "waiting"}
    /\ dispatcher_task' = "done"
    /\ loops' = [loops EXCEPT !.ended = @ + 1]
    /\ UNCHANGED <<queue, state_changed, pass_remaining, pc, model_id,
                   future, must_cancel, returned, passLog, snap, attempted,
                   last_call>>
    /\ UNCHANGED poolVars

\* the dispatcher and its callers with a matching loop that can fail
NextFault ==
    \/ \E c \in Callers, m \in Models : Submit(c, m)
    \/ \E c \in Callers : Cancel(c)
    \/ \E c \in Callers : SubmitReturn(c)
    \/ \E c \in Callers : SubmitCancelled(c)
    \/ \E c \in Callers : CallerRelease(c)
    \/ LoopTop
    \/ LoopWakeIdle
    \/ LoopStep
    \/ LoopPassEnd
    \/ LoopFault
    \/ \E s \in Servers, ok \in BOOLEAN : RefreshManifest(s, ok, Manifest(s))

SpecFault == Init /\ [][NextFault]_vars

\* the dispatcher in front of servers whose manifests were fetched and whose
\* capacity is the default 1: server 1 is the only one that offers "A"
InitLive ==
    /\ available_models = [s \in Servers |-> Manifest(s)]
    /\ active_requests = [s \in Servers |-> 0]
    /\ max_concurrent = [s \in Servers |-> 1]
    /\ current_model = [s \in Servers |-> None]
    /\ resource_available = FALSE
    /\ queue = <<>>
    /\ state_changed = FALSE
    /\ dispatcher_task = "none"
    /\ pass_remaining = 0
    /\ pc = [c \in Callers |-> "new"]
    /\ model_id = [c \in Callers |-> None]
    /\ future = [c \in Callers |-> NoFuture]
    /\ must_cancel = [c \in Callers |-> FALSE]
    /\ returned = [c \in Callers |-> NoUrl]
    /\ passLog = <<>>
    /\ snap = NoSnap
    /\ attempted = {}
    /\ loops = NoLoops
    /\ last_call = NoCall

NextLive ==
    \/ \E c \in Callers, m \in Models : Submit(c, m)
    \/ \E c \in Callers : Cancel(c)
    \/ \E c \in Callers : SubmitReturn(c)
    \/ \E c \in Callers : SubmitCancelled(c)
    \/ \E c \in Callers : CallerRelease(c)
    \/ LoopTop
    \/ LoopWakeIdle
    \/ LoopStep
    \/ LoopPassEnd

\* the event loop runs every ready callback (the matching loop and the
\* resumption of a submit whose future is done), and a caller that was
\* handed a URL releases it in the end, as its contract requires
SpecLive ==
    /\ InitLive
    /\ [][NextLive]_vars
    /\ WF_vars(LoopNext)
    /\ \A c \in Callers :
          /\ WF_vars(SubmitReturn(c))
          /\ WF_vars(SubmitCancelled(c))
          /\ WF_vars(CallerRelease(c))

\* ================================================================ claims

\* C2 as stated: invariant I1, 0 <= active_requests <= max_concurrent for
\* every server after any sequence of pool operations, set_max_concurrent
\* with any argument included
I1_AsStated ==
    \A s \in Servers :
        0 <= active_requests[s] /\ active_requests[s] <= max_concurrent[s]

\* C2 amended: active_requests is never negative, and no operation raises a
\* server's active_requests above its max_concurrent: every step leaves each
\* server within capacity or does not increase its active_requests (a server
\* is over capacity only because set_max_concurrent lowered the capacity
\* below the slots already granted, which are not evicted)
I1_NeverGrantedBeyondCapacity ==
    /\ [](\A s \in Servers : active_requests[s] >= 0)
    /\ [][\A s \in Servers :
             \/ active_requests'[s] <= max_concurrent'[s]
             \/ active_requests'[s] <= active_requests[s]]_vars

\* C2 witness: a server filled to a capacity that set_max_concurrent raised
C2_Witness ==
    \E s \in Servers :
        /\ max_concurrent[s] > 1
        /\ active_requests[s] = max_concurrent[s]

\* C3: invariant I2, current_model is unset exactly when active_requests is
\* 0, after any sequence of pool operations, surplus releases included
I2_CurrentModelIffActive ==
    \A s \in Servers : (current_model[s] = None) <=> (active_requests[s] = 0)

\* C3 witness: after a release a server still has a granted slot and is
\* pinned, next to a drained server that is not
C3_Witness ==
    /\ resource_available
    /\ \E s, t \in Servers :
          /\ active_requests[s] > 0 /\ current_model[s] # None
          /\ active_requests[t] = 0 /\ current_model[t] = None
          /\ available_models[t] # {}

\* C4: JIT-swap protection: find_and_acquire(m) never returns a server that
\* has active requests and is pinned to another model, and while a server's
\* active_requests stays above 0 its current_model keeps its value; a
\* drained server with m in its catalog makes find_and_acquire(m) succeed,
\* and the server that is granted gets the requested model as current_model
JitSwapProtection ==
    /\ [](\A m \in Models :
            /\ BestUrl(m) # NoUrl =>
                  \/ active_requests[BestUrl(m)] = 0
                  \/ current_model[BestUrl(m)] = m
            /\ (\E s \in Servers :
                   active_requests[s] = 0 /\ m \in available_models[s])
                  => BestUrl(m) # NoUrl)
    /\ [][\A s \in Servers :
             /\ (active_requests[s] > 0 /\ active_requests'[s] > 0)
                   => current_model'[s] = current_model[s]
             /\ active_requests'[s] > active_requests[s]
                   => \E m \in Models :
                         BestUrl(m) = s /\ current_model'[s] = m]_vars

\* C4 witness: a server pinned to "A" with a free slot and "B" in its
\* catalog, and find_and_acquire("B") finds no server
C4_Witness ==
    \E s \in Servers :
        /\ current_model[s] = "A"
        /\ active_requests[s] > 0
        /\ active_requests[s] < max_concurrent[s]
        /\ "B" \in available_models[s]
        /\ BestUrl("B") = NoUrl

\* the eligible servers of C9: model in catalog, a free slot, JIT-swap rule
Eligible(m) ==
    {s \in Servers :
        /\ m \in available_models[s]
        /\ active_requests[s] < max_concurrent[s]
        /\ \/ current_model[s] = None
           \/ current_model[s] = m
           \/ active_requests[s] = 0}

\* C9: least-loaded selection: find_and_acquire(m) returns no server when
\* none is eligible, and otherwise an eligible server of minimal
\* active_requests, the first such server in configuration order
LeastLoadedSelection ==
    \A m \in Models :
        IF Eligible(m) = {}
        THEN BestUrl(m) = NoUrl
        ELSE /\ BestUrl(m) \in Eligible(m)
             /\ \A e \in Eligible(m) :
                   /\ active_requests[BestUrl(m)] <= active_requests[e]
                   /\ active_requests[e] = active_requests[BestUrl(m)]
                         => BestUrl(m) <= e

\* C9 witness: two eligible servers of unequal load, and the later one in
\* configuration order, the less loaded, is chosen
C9_Witness ==
    \E m \in Models :
        /\ 1 \in Eligible(m)
        /\ BestUrl(m) = 2
        /\ active_requests[1] > active_requests[2]

\* the callers that hold a granted and not yet released slot on server s:
\* the future was resolved with s, and neither the caller nor the
\* cancellation handler has released it
Holders(s) ==
    {c \in Callers :
        /\ future[c] = ResolvedFuture(s)
        /\ pc[c] \in {"awaiting", "holding"}}

QueuedCallers == {queue[i] : i \in 1..Len(queue)}

\* C1: exclusive slots: on every server the callers holding a granted and
\* not yet released slot are at most max_concurrent, when every caller
\* releases once and the capacity is not lowered while slots are held
ExclusiveSlots ==
    \A s \in Servers : Cardinality(Holders(s)) <= max_concurrent[s]

\* C1 witness: a server whose slots are all held while a request that only
\* this server could take is waiting in the queue
C1_Witness ==
    \E s \in Servers, c \in QueuedCallers :
        /\ Cardinality(Holders(s)) = max_concurrent[s]
        /\ future[c].state = "pending"
        /\ model_id[c] \in available_models[s]
        /\ current_model[s] = model_id[c]
        /\ dispatcher_task = "waiting"

\* C5: cancellation race: when a submit whose future was already resolved
\* with a URL ends in cancellation, that step releases the URL once: the
\* server's active_requests drops by exactly one, current_model is cleared
\* iff it reaches 0, no other server changes, and when no other acquire or
\* release came in between, all servers are back at their values from
\* before the admission
CancelRaceReleasesSlot ==
    [][\A c \in Callers :
          (/\ pc[c] = "awaiting"
           /\ pc'[c] = "cancelled"
           /\ future[c].state = "result")
          => LET u == future[c].result
             IN /\ active_requests'[u] = active_requests[u] - 1
                /\ current_model'[u] = IF active_requests'[u] = 0
                                       THEN None ELSE current_model[u]
                /\ \A s \in Servers \ {u} :
                      /\ active_requests'[s] = active_requests[s]
                      /\ current_model'[s] = current_model[s]
                /\ snap.who = c =>
                      /\ active_requests' = snap.active
                      /\ current_model' = snap.current]_vars

\* C5 witness: a submit that was granted a URL ended in cancellation right
\* after its admission, and the server it was granted is drained
C5_Witness ==
    \E c \in Callers :
        /\ pc[c] = "cancelled"
        /\ future[c].state = "result"
        /\ active_requests[future[c].result] = 0
        /\ current_model[future[c].result] = None

\* C6: cancelling a queued request changes no server, when it is cancelled,
\* when the cancellation propagates, or later: the future stays cancelled,
\* and the loop, reaching the entry, removes it and leaves the pool alone
QueuedCancelLeavesPool ==
    [][\A c \in Callers :
          /\ (future[c].state = "pending" /\ future'[c].state = "cancelled")
                => UNCHANGED <<active_requests, current_model>>
          /\ future[c].state = "cancelled" =>
                /\ future'[c] = future[c]
                /\ pc'[c] # pc[c] =>
                      /\ pc'[c] = "cancelled"
                      /\ UNCHANGED <<active_requests, current_model>>
                /\ (/\ dispatcher_task = "pass"
                    /\ pass_remaining > 0
                    /\ queue # <<>>
                    /\ Head(queue) = c)
                   => /\ queue' = Tail(queue)
                      /\ UNCHANGED <<active_requests, current_model>>]_vars

\* C6 witness: the pass has just removed a cancelled entry while a server
\* that offers its model has a free slot
C6_Witness ==
    \E i \in 1..Len(passLog) :
        /\ passLog[i][2] = "gc"
        /\ future[passLog[i][1]].state = "cancelled"
        /\ BestUrl(model_id[passLog[i][1]]) # NoUrl

\* C7: head-of-line non-blocking: a request the pass could not admit stays
\* pending in the queue and the pass goes on to the requests behind it, so
\* that when the for loop is over no pending request of the queue could be
\* admitted by find_and_acquire
HeadOfLineNonBlocking ==
    dispatcher_task = "pass" =>
        /\ \A i \in 1..Len(passLog) :
              passLog[i][2] = "rotate" =>
                 /\ passLog[i][1] \in QueuedCallers
                 /\ future[passLog[i][1]].state = "pending"
        /\ (pass_remaining = 0 \/ queue = <<>>) =>
              \A c \in QueuedCallers :
                 future[c].state = "pending" => BestUrl(model_id[c]) = NoUrl

\* C7 witness: in one pass a request was rotated and a request behind it
\* was granted a server
C7_Witness ==
    /\ dispatcher_task = "pass"
    /\ \E i, j \in 1..Len(passLog) :
          /\ i < j
          /\ passLog[i][2] = "rotate"
          /\ passLog[j][2] = "grant"
          /\ future[passLog[i][1]].state = "pending"

\* C8: server 1 has capacity 1 and is the only server that offers "A": a
\* pending request for "A" is not resolved in a step taken while another
\* caller holds the slot, and a pending request for "A" ends up resolved
\* with server 1 (or cancelled by its caller)
WaitsThenGranted ==
    /\ [][\A c \in Callers :
             (/\ model_id[c] = "A"
              /\ future[c].state = "pending"
              /\ Holders(1) # {})
             => future'[c].state # "result"]_vars
    /\ \A c \in Callers :
          (model_id[c] = "A" /\ future[c].state = "pending")
             ~> (future[c] = ResolvedFuture(1) \/ future[c].state = "cancelled")

\* C8 witness: two requests for "A": one caller has released server 1 and
\* the other has then been granted server 1
C8_Witness ==
    \E c, d \in Callers :
        /\ c # d
        /\ model_id[c] = "A" /\ model_id[d] = "A"
        /\ pc[d] = "released" /\ returned[d] = 1
        /\ pc[c] = "holding" /\ returned[c] = 1

\* C10: submit ends by returning a URL or by propagating the cancellation:
\* a returned URL is the result of the future, it was granted by a server
\* that had the model in its catalog and was pinned to it by the grant, and
\* a submit that observed a cancellation never returns a URL
SubmitOutcome ==
    /\ [](\A c \in Callers :
            /\ pc[c] \in {"holding", "released"} =>
                  /\ returned[c] \in Servers
                  /\ future[c] = ResolvedFuture(returned[c])
                  /\ ~must_cancel[c]
            /\ pc[c] = "cancelled" => returned[c] = NoUrl)
    /\ [][\A c \in Callers :
             /\ (future[c].state = "pending" /\ future'[c].state = "result")
                   => /\ future'[c].result \in Servers
                      /\ model_id[c] \in available_models[future'[c].result]
                      /\ current_model'[future'[c].result] = model_id[c]
             /\ (/\ pc[c] = "awaiting"
                 /\ pc'[c] # "awaiting"
                 /\ (must_cancel[c] \/ future[c].state = "cancelled"))
                   => pc'[c] = "cancelled"]_vars

\* C10 witness: one submit has returned a URL and another, whose future was
\* resolved too, has ended in cancellation
C10_Witness ==
    \E c, d \in Callers :
        /\ pc[c] = "holding"
        /\ pc[d] = "cancelled"
        /\ future[d].state = "result"

\* C11: set_max_concurrent(n) leaves every server with max_concurrent =
\* max(1, n), and the call changes no active_requests, no current_model and
\* no catalog, also when the new capacity is below a server's load
SetMaxConcurrentClamps ==
    /\ [](last_call.op = "set_max_concurrent" =>
            \A s \in Servers :
                max_concurrent[s] = IF last_call.arg >= 1
                                    THEN last_call.arg ELSE 1)
    /\ [][last_call'.op = "set_max_concurrent" =>
             UNCHANGED <<active_requests, current_model,
                         available_models>>]_vars

\* C11 witness: set_max_concurrent(0) was called while a server held two
\* requests; the server keeps them with a capacity of 1
C11_Witness ==
    /\ last_call = [op |-> "set_max_concurrent", arg |-> 0]
    /\ \E s \in Servers :
          /\ active_requests[s] = 2
          /\ max_concurrent[s] = 1
          /\ current_model[s] # None

\* C12: a refresh of one server stores the reported set on success and the
\* empty set on failure, and touches nothing else: not the catalogs of the
\* other servers, no active_requests, no current_model
RefreshPerServer ==
    [][last_call'.op = "refresh_manifest" =>
         LET s == last_call'.arg[1]
             ok == last_call'.arg[2]
             reported == last_call'.arg[3]
         IN /\ available_models'[s] = IF ok THEN reported ELSE {}
            /\ \A t \in Servers \ {s} :
                  available_models'[t] = available_models[t]
            /\ UNCHANGED <<active_requests, current_model>>]_vars

\* C12 witness: the refresh of a loaded server has failed and emptied its
\* catalog, while another server keeps a non-empty catalog
C12_Witness ==
    /\ last_call.op = "refresh_manifest"
    /\ ~last_call.arg[2]
    /\ LET s == last_call.arg[1]
       IN /\ available_models[s] = {}
          /\ active_requests[s] > 0
          /\ \E t \in Servers \ {s} : available_models[t] # {}

\* C15 as stated: after every release_server call, whatever its URL, the
\* capacity-available event is set
ReleaseAlwaysSignals ==
    last_call.op = "release_server" => resource_available

\* C15 amended: after every release_server call with the URL of a configured
\* server the capacity-available event is set, whether or not a slot was
\* freed
ReleaseOfServerSignals ==
    (last_call.op = "release_server" /\ last_call.arg \in Servers)
        => resource_available

\* C15 witness: a configured server with nothing to release was released,
\* and the event is set
C15_Witness ==
    /\ last_call.op = "release_server"
    /\ last_call.arg \in Servers
    /\ \A s \in Servers : active_requests[s] = 0 /\ available_models[s] = {}
    /\ resource_available

\* C18: release_server(u) on a configured server takes one from
\* active_requests[u] unless it is 0, clears current_model[u] exactly when
\* the count is 0 afterwards, leaves the other servers alone, and changes
\* nothing at all on an idle server; no counter is ever negative
ReleaseDecrementsFloored ==
    /\ [](\A s \in Servers : active_requests[s] >= 0)
    /\ [][(last_call'.op = "release_server" /\ last_call'.arg \in Servers) =>
             LET u == last_call'.arg
             IN /\ active_requests'[u] = IF active_requests[u] > 0
                                         THEN active_requests[u] - 1 ELSE 0
                /\ current_model'[u] = IF active_requests'[u] = 0
                                       THEN None ELSE current_model[u]
                /\ \A t \in Servers \ {u} :
                      /\ active_requests'[t] = active_requests[t]
                      /\ current_model'[t] = current_model[t]
                /\ UNCHANGED <<max_concurrent, available_models>>
                /\ active_requests[u] = 0 =>
                      /\ active_requests'[u] = active_requests[u]
                      /\ current_model'[u] = current_model[u]]_vars

\* C18 witness: the release of a server that held two requests has left it
\* with one request and its model
C18_Witness ==
    /\ last_call.op = "release_server"
    /\ last_call.arg \in Servers
    /\ active_requests[last_call.arg] = 1
    /\ current_model[last_call.arg] # None

\* the callers the current pass has visited, in order of visit
Visited == [i \in 1..Len(passLog) |-> passLog[i][1]]

\* the callers the current pass has moved to the tail, in order of visit
RECURSIVE RotatedOf(_)
RotatedOf(log) ==
    IF log = <<>> THEN <<>>
    ELSE IF Head(log)[2] = "rotate"
         THEN <<Head(log)[1]>> \o RotatedOf(Tail(log))
         ELSE RotatedOf(Tail(log))

\* C19: a pass works on the queue as it was when the pass began: it takes
\* the length once, each iteration visits the head and does exactly one of
\* gc, grant and rotate to it, no entry is visited twice, the entries not
\* yet visited are the first pass_remaining ones, the rotated entries wait
\* behind them in their order, and the pass ends only when all entries of
\* the snapshot have been visited
PassSnapshot ==
    /\ [](dispatcher_task = "pass" =>
            /\ \A i, j \in 1..Len(passLog) : i # j => Visited[i] # Visited[j]
            /\ \A i \in 1..Len(passLog) :
                  /\ passLog[i][2] \in {"gc", "grant", "rotate"}
                  /\ passLog[i][2] = "rotate" <=> Visited[i] \in QueuedCallers
            /\ pass_remaining >= 0
            /\ Len(queue) = pass_remaining + Len(RotatedOf(passLog))
            /\ SubSeq(queue, pass_remaining + 1, Len(queue))
                  = RotatedOf(passLog)
            /\ \A k \in 1..pass_remaining :
                  \A i \in 1..Len(passLog) : queue[k] # Visited[i])
    /\ [][(dispatcher_task # "pass" /\ dispatcher_task' = "pass") =>
             /\ pass_remaining' = Len(queue)
             /\ queue' = queue
             /\ passLog' = <<>>]_vars
    /\ [][(dispatcher_task = "pass" /\ dispatcher_task' = "pass") =>
             /\ pass_remaining' = pass_remaining - 1
             /\ passLog' = Append(passLog, <<Head(queue), passLog'[Len(passLog')][2]>>)
             /\ Len(queue') <= Len(queue)]_vars
    /\ [][(dispatcher_task = "pass" /\ dispatcher_task' # "pass") =>
             pass_remaining = 0]_vars

\* C19 witness: a pass over two entries is complete; it has granted one
\* entry and rotated the other, which is alone in the queue
C19_Witness ==
    /\ dispatcher_task = "pass"
    /\ pass_remaining = 0
    /\ Len(passLog) = 2
    /\ \E i, j \in 1..2 :
          /\ passLog[i][2] = "rotate"
          /\ passLog[j][2] = "grant"
          /\ queue = <<passLog[i][1]>>

\* C20: on every server active_requests is the number of requests that were
\* resolved with the server's URL and whose slot has not been given back,
\* neither by the caller nor by the cancellation handler
NoSlotLeak ==
    \A s \in Servers : active_requests[s] = Cardinality(Holders(s))

\* C20 witness: a server has granted two slots; the cancellation handler
\* gave one back, the other is held by its caller, and the counter is 1
C20_Witness ==
    \E s \in Servers, c, d \in Callers :
        /\ future[c] = ResolvedFuture(s)
        /\ future[d] = ResolvedFuture(s)
        /\ pc[c] = "holding"
        /\ pc[d] = "cancelled"
        /\ active_requests[s] = 1

\* C13 as stated: in a pass, a request that an earlier pass attempted and
\* did not admit is attempted after the requests submitted since then
DeferredBehindNewer ==
    dispatcher_task = "pass" =>
        \A i, j \in 1..Len(passLog) :
            (i < j /\ Visited[i] \in attempted) => Visited[j] \in attempted

\* C13 amended: the requests an earlier pass left unserved keep their place;
\* a pass attempts them first, in their order, and the requests submitted
\* since then after them: every pass visits in submission order, and
\* between passes the queue is in submission order (callers are numbered in
\* the order of their submit calls)
RetriedBeforeNewer ==
    /\ dispatcher_task = "pass" =>
          \A i, j \in 1..Len(passLog) :
              i < j => /\ Visited[j] \in attempted => Visited[i] \in attempted
                       /\ Visited[i] < Visited[j]
    /\ Yielded =>
          \A i, j \in 1..Len(queue) :
              i < j => /\ queue[i] < queue[j]
                       /\ queue[j] \in attempted => queue[i] \in attempted

\* C13 witness: a pass has attempted a request that the pass before had
\* rotated, and after it a request submitted between the two passes
C13_Witness ==
    /\ dispatcher_task = "pass"
    /\ Len(passLog) = 2
    /\ Visited[1] \in attempted
    /\ Visited[2] \notin attempted

\* C14: no wake-up is missed: whenever the loop is suspended, a request is
\* queued and one of the two events is set (the state a release_server on a
\* configured server or a submit leaves behind), a pass follows that visits
\* the request; a pass is never entered from the wait unless an event is set,
\* and entering it consumes both events
NoMissedWakeup ==
    /\ \A c \in Callers :
          (/\ Yielded
           /\ c \in QueuedCallers
           /\ resource_available \/ state_changed)
             ~> (dispatcher_task = "pass"
                 /\ \E i \in 1..Len(passLog) : Visited[i] = c)
    /\ [][(dispatcher_task = "waiting" /\ dispatcher_task' = "pass") =>
             /\ resource_available \/ state_changed
             /\ ~resource_available' /\ ~state_changed']_vars

\* C14 witness: a request that an earlier pass could not admit is granted
\* in a pass entered after the release of the slot it waited for
C14_Witness ==
    \E c, d \in Callers :
        /\ dispatcher_task = "pass"
        /\ c \in attempted
        /\ \E i \in 1..Len(passLog) : passLog[i] = <<c, "grant">>
        /\ pc[d] = "released"
        /\ future[c] = ResolvedFuture(returned[d])

\* the matching-loop tasks that were started and have not ended
LiveLoops == loops.started - loops.ended

\* C16: at most one matching loop is alive in every state, whatever the
\* interleaving of submit calls and loop terminations: submit starts a loop
\* only in a state where none is alive (none started yet, or the last one
\* ended), and it does so in the same step as its test
AtMostOneLoop ==
    /\ [](/\ LiveLoops \in {0, 1}
          /\ LiveLoops = 0 <=> dispatcher_task \in {"none", "done"}
          /\ loops.started = 0 <=> dispatcher_task = "none")
    /\ [][loops'.started # loops.started =>
             /\ LiveLoops = 0
             /\ loops'.started = loops.started + 1
             /\ loops'.ended = loops.ended
             /\ Len(queue') = Len(queue) + 1]_vars

\* C16 witness: two submit calls were made before the loop task first ran,
\* and one loop was started
C16_Witness ==
    /\ dispatcher_task = "start"
    /\ Len(queue) >= 2
    /\ loops = [started |-> 1, ended |-> 0]

\* C17: a matching loop that ends while suspended leaves the queue, the
\* futures and every server as they are; the next submit appends its request
\* behind the queued ones and starts a new loop; the first pass of a new loop
\* covers the whole queue
LoopFaultRecovery ==
    /\ [][loops'.ended # loops.ended =>
             /\ dispatcher_task \in {"start", "idle", "waiting"}
             /\ dispatcher_task' = "done"
             /\ UNCHANGED <<queue, future, active_requests, current_model,
                            max_concurrent, available_models>>]_vars
    /\ [][(dispatcher_task = "done" /\ queue' # queue) =>
             /\ dispatcher_task' = "start"
             /\ loops'.started = loops.started + 1
             /\ SubSeq(queue', 1, Len(queue)) = queue
             /\ Len(queue') = Len(queue) + 1]_vars
    /\ [][(dispatcher_task = "start" /\ dispatcher_task' = "pass") =>
             /\ queue' = queue
             /\ pass_remaining' = Len(queue)]_vars
    /\ [](dispatcher_task = "done" =>
             \A i \in 1..Len(queue) : future[queue[i]].state # "result")

\* C17 witness: the first loop has ended with a request queued, a second
\* submit has started a new loop, and the pass of the new loop has granted
\* the older request a server
C17_Witness ==
    /\ loops = [started |-> 2, ended |-> 1]
    /\ dispatcher_task = "pass"
    /\ \E c, d \in Callers :
          /\ c < d
          /\ \E i \in 1..Len(passLog) : passLog[i] = <<c, "grant">>
          /\ \E j \in 1..Len(passLog) : Visited[j] = d

\* the matching loop is suspended in one of its waits and neither event is
\* set: nothing will resume it before the next submit or release_server
Asleep ==
    /\ dispatcher_task \in {"idle", "waiting"}
    /\ ~resource_available
    /\ ~state_changed

\* C21 as stated: while the loop is suspended with no wake signal pending,
\* find_and_acquire would admit none of the queued requests whose future is
\* pending, under every interleaving of submit, release_server, capacity
\* raises and manifest refreshes
RetryWhenCapacityAppears ==
    Asleep =>
        \A i \in 1..Len(queue) :
            future[queue[i]].state = "pending"
                => BestUrl(model_id[queue[i]]) = NoUrl

\* C22: of two pending requests for the same model the one submitted later
\* is never resolved with a URL while the earlier one stays pending, and
\* whenever the loop is suspended the queue is in submission order
\* (callers are numbered in the order of their submit calls)
PerModelFifo ==
    /\ [][\A c, d \in Callers :
             (/\ c < d
              /\ model_id[c] = model_id[d]
              /\ future[c].state = "pending"
              /\ future[d].state = "pending")
             => ~(future'[d].state = "result"
                  /\ future'[c].state = "pending")]_vars
    /\ [](Yielded =>
            \A i, j \in 1..Len(queue) : i < j => queue[i] < queue[j])

\* C22 witness: two requests for one model were queued; the pass has
\* granted the earlier one and rotated the later one
C22_Witness ==
    \E c, d \in Callers :
        /\ c < d
        /\ model_id[c] = model_id[d]
        /\ dispatcher_task = "pass"
        /\ passLog = <<<<c, "grant">>, <<d, "rotate">>>>

\* C23: with fixed catalogs that cover every model, fixed capacities, a
\* finite number of submits, a loop that keeps running and callers that
\* release what they were granted, every submitted request ends up resolved
\* with a server that offers its model, unless its caller cancels it; until
\* then it stays queued
EventualService ==
    /\ \A c \in Callers :
          future[c].state = "pending"
             ~> (\/ /\ future[c].state = "result"
                    /\ model_id[c] \in available_models[future[c].result]
                 \/ future[c].state = "cancelled")
    /\ [](\A c \in Callers :
             future[c].state = "pending" => c \in QueuedCallers)

\* C23 witness: a request waited for a server that offers its model and
\* was pinned to a different model; after the holder's release a pass has
\* granted it that server
C23_Witness ==
    \E c, d \in Callers :
        /\ model_id[c] # model_id[d]
        /\ pc[d] = "released"
        /\ c \in attempted
        /\ dispatcher_task = "pass"
        /\ future[c] = ResolvedFuture(returned[d])
        /\ current_model[returned[d]] = model_id[c]

====
